---- MODULE Spec2Model ----
(***************************************************************************)
(* Model of Login.login / Login.executeLogin (src/src/login.py) together   *)
(* with the session probe Utils.isLoggedIn / Utils.getBingInfo             *)
(* (src/src/utils.py).                                                     *)
(*                                                                         *)
(* One login() call is modelled.  The program is single threaded: pc is    *)
(* the blocking call the thread is at, and every action is the code from   *)
(* one blocking call up to the next one.  What the browser, the network    *)
(* and the operator answer is chosen with \E in the action that asks.      *)
(* log is the sequence of everything the call did to, or observed of, the  *)
(* browser and the operator; it is a history variable the code never reads.*)
(*                                                                         *)
(* manage_running_status (src/src/utils.py) is modelled beside it, under   *)
(* a specification of its own (StoreSpec): one process makes a series of   *)
(* calls, a second process reads the status file while it does.            *)
(*                                                                         *)
(* Utils.goToRewards is modelled with its caller Utils.getDashboardData,   *)
(* under RewardsSpec; gpc is the blocking call that thread is at.          *)
(***************************************************************************)
EXTENDS Naturals, Sequences, FiniteSets

VARIABLES
    pc,                  \* the blocking call login() is at
    err,                 \* the exception that left login(), NoErr while none
    log,                 \* history: <<kind, target>> per browser/operator event
    visible,             \* args.visible
    username,            \* browser.username
    password,            \* browser.password
    totp,                \* browser.totp, NoTotp for None
    probeCaller,         \* which isLoggedIn() call is running: "first" (l.30) or "final" (l.37)
    httpRetries,         \* retries urllib3 has spent in the running getBingInfo request
    probeInfo,           \* userInfo["isRewardsUser"] of the running isLoggedIn call
    probeNavs,           \* navigations made by the running isLoggedIn call
    probes,              \* history: one record per isLoggedIn call that returned
    emailValue,          \* emailField.get_attribute("value")
    passwdValue,         \* passwordField.get_attribute("value")
    otp,                 \* local otp of executeLogin
    otpValue,            \* otpField.get_attribute("value")
    isPasswordless,      \* local of executeLogin
    isDeviceAuthEnabled, \* local of executeLogin
    isTOTPEnabled,       \* local of executeLogin
    isAskingToProtect,   \* local of executeLogin
    retry_count,         \* local of executeLogin
    branches,            \* history: the sign-in branches the attempt has entered
    file,                \* STATUS_FILE: whether it exists, and its bytes
    spc,                 \* where the calling process is in manage_running_status
    pending,             \* value of the "set" call that has opened the file
    prevFile,            \* history: STATUS_FILE just before that "set" opened it
    calls,               \* history: the calls the calling process has completed
    lastRead,            \* history: the last "get" made by the other process
    gpc,                 \* where the thread is in getDashboardData / goToRewards
    gcall,               \* which goToRewards call is running (l.169: 1, l.175: 2)
    current_url,         \* webdriver.current_url
    urlBefore,           \* local of getDashboardData
    nav_retry_count,     \* retry_count, local of goToRewards
    glog,                \* history: what goToRewards did, per call
    gout,                \* history: how each goToRewards call ended
    gpending,            \* what the try block of getDashboardData left: value or exception
    gerr                 \* the exception that left getDashboardData

config    == <<visible, username, password, totp>>
probeVars == <<probeCaller, httpRetries, probeInfo, probeNavs, probes>>
fieldVars == <<emailValue, passwdValue, otp, otpValue>>
flagVars  == <<isPasswordless, isDeviceAuthEnabled, isTOTPEnabled, isAskingToProtect>>
loginVars == <<pc, err, log, config, probeVars, fieldVars, flagVars, retry_count, branches>>
storeVars == <<file, spc, pending, prevFile, calls, lastRead>>
rewardsVars == <<gpc, gcall, current_url, urlBefore, nav_retry_count, glog, gout, gpending, gerr>>
vars      == <<loginVars, storeVars, rewardsVars>>

(***************************************************************************)
(* Inputs                                                                  *)
(***************************************************************************)
Usernames == {"a@x", "b@x"}
Passwords == {"pw1", "pw2"}
NoTotp    == "None"
Secrets   == {"JBSW Y3DP", "JBSWY3DP"}
Windows   == {"w0", "w1"}      \* 30-second windows TOTP.now() can fall in
Garbled   == "garbled"         \* a read-back that is not what was typed
Empty     == ""

(***************************************************************************)
(* Program constants                                                       *)
(***************************************************************************)
MAX_RETRY_DASHBOARD == 5
RetryTotal == 5

SIGNIN_URL  == "https://rewards.bing.com/Signin/"
REWARDS_URL == "REWARDS_URL"

NoErr == [cls |-> "none", msg |-> ""]
DeviceAuthMsg  == "device auth is not supported yet"
Need2FAMsg     == "2FA detected, provide token or run in visible mode"
NeedProtectMsg == "Account protection detected, run in visible mode"
DashboardMsgEmpty == ""
DashboardMsg   == "Failed to load Dashboard after maximum retries."

(***************************************************************************)
(* Helpers                                                                 *)
(***************************************************************************)
Ev(kind, target) == <<kind, target>>

Emit(events) == log' = log \o events

Raise(cls, msg) == pc' = "raised" /\ err' = [cls |-> cls, msg |-> msg]

Goto(next) == pc' = next /\ err' = err

Count(kind, target) == Cardinality({i \in DOMAIN log : log[i] = Ev(kind, target)})

\* browser.totp.replace(" ", "")
StripSpaces(secret) == IF secret = "JBSW Y3DP" THEN "JBSWY3DP" ELSE secret

\* TOTP(key).now(): a function of the key and of the current 30-second window only
TotpNow(key, window) ==
    CASE key = "JBSWY3DP" /\ window = "w0" -> "492039"
      [] key = "JBSWY3DP" /\ window = "w1" -> "118427"
      [] OTHER -> "000000"

(***************************************************************************)
(* Utils.isLoggedIn and Utils.getBingInfo                                  *)
(***************************************************************************)
\* urllib3 Retry(total=5): a failed request is sent again while retries remain
RetriesLeft(n) == n < RetryTotal

\* "if self.utils.isLoggedIn():" of login()
AlreadyLoggedInNever(result) == FALSE

AlreadyLoggedIn(result) == result

\* login() without the "assert self.utils.isLoggedIn()" of l.37
ProbeReturnNoAssert(result, info, navs) ==
    /\ probes' = Append(probes, [caller |-> probeCaller, info |-> info,
                                 navs |-> navs, result |-> result])
    /\ IF probeCaller = "first"
       THEN /\ err' = err
            /\ IF AlreadyLoggedIn(result)
               THEN /\ pc' = "getBingInfo"
                    /\ probeCaller' = "final"
               ELSE /\ pc' = "emailWait"
                    /\ probeCaller' = "none"
       ELSE /\ probeCaller' = "none"
            /\ Goto("returned")

\* the value isLoggedIn returns, and what login() does with it (l.30-37)
ProbeReturn(result, info, navs) ==
    /\ probes' = Append(probes, [caller |-> probeCaller, info |-> info,
                                 navs |-> navs, result |-> result])
    /\ IF probeCaller = "first"
       THEN /\ err' = err
            /\ IF AlreadyLoggedIn(result)
               THEN /\ pc' = "getBingInfo"
                    /\ probeCaller' = "final"
               ELSE /\ pc' = "emailWait"
                    /\ probeCaller' = "none"
       ELSE /\ probeCaller' = "none"
            /\ IF result
               THEN Goto("returned")
               ELSE Raise("AssertionError", "")

LoginCall ==
    /\ pc = "idle"
    /\ Goto("getBingInfo")
    /\ probeCaller' = "first"
    /\ UNCHANGED <<storeVars, rewardsVars, log, config, httpRetries, probeInfo, probeNavs, probes,
                   fieldVars, flagVars, retry_count, branches>>

\* the "if self.getBingInfo()[...]" line of isLoggedIn: one request (or one retry of it)
GetBingInfo ==
    /\ pc = "getBingInfo"
    /\ \E resp \in {"ok_user", "ok_nonuser", "bad_status", "transient"} :
         CASE resp = "ok_user" ->
                /\ probeInfo' = TRUE
                /\ probeNavs' = 0
                /\ httpRetries' = 0
                /\ ProbeReturn(TRUE, TRUE, 0)
           [] resp = "ok_nonuser" ->
                /\ probeInfo' = FALSE
                /\ probeNavs' = 0
                /\ httpRetries' = 0
                /\ Goto("signinGet")
                /\ UNCHANGED <<probeCaller, probes>>
           [] resp = "bad_status" ->
                /\ Raise("AssertionError", "")
                /\ httpRetries' = httpRetries
                /\ UNCHANGED <<probeCaller, probeInfo, probeNavs, probes>>
           [] resp = "transient" ->
                IF RetriesLeft(httpRetries)
                THEN /\ httpRetries' = httpRetries + 1
                     /\ Goto("getBingInfo")
                     /\ UNCHANGED <<probeCaller, probeInfo, probeNavs, probes>>
                ELSE /\ Raise("RequestException", "")
                     /\ httpRetries' = httpRetries
                     /\ UNCHANGED <<probeCaller, probeInfo, probeNavs, probes>>
    /\ UNCHANGED <<storeVars, rewardsVars, log, config, fieldVars, flagVars, retry_count, branches>>

SigninGet ==
    /\ pc = "signinGet"
    /\ Emit(<<Ev("nav", SIGNIN_URL)>>)
    /\ probeNavs' = probeNavs + 1
    /\ Goto("portalWait")
    /\ UNCHANGED <<storeVars, rewardsVars, config, probeCaller, httpRetries, probeInfo, probes,
                   fieldVars, flagVars, retry_count, branches>>

\* the marker wait without contextlib.suppress(TimeoutException)
PortalWaitUnsuppressed ==
    /\ pc = "portalWait"
    /\ \E found \in BOOLEAN :
         /\ Emit(<<Ev(IF found THEN "wait_ok" ELSE "wait_timeout", "RewardsPortal")>>)
         /\ probeNavs' = probeNavs
         /\ IF found
            THEN ProbeReturn(TRUE, probeInfo, probeNavs)
            ELSE Raise("TimeoutException", "") /\ UNCHANGED <<probeCaller, probes>>
    /\ UNCHANGED <<storeVars, rewardsVars, config, httpRetries, probeInfo, fieldVars, flagVars,
                   retry_count, branches>>

\* the marker wait with "return True" moved out of the with block
PortalWaitAlwaysTrue ==
    /\ pc = "portalWait"
    /\ \E found \in BOOLEAN :
         /\ Emit(<<Ev(IF found THEN "wait_ok" ELSE "wait_timeout", "RewardsPortal")>>)
         /\ probeNavs' = probeNavs
         /\ ProbeReturn(TRUE, probeInfo, probeNavs)
    /\ UNCHANGED <<storeVars, rewardsVars, config, httpRetries, probeInfo, fieldVars, flagVars,
                   retry_count, branches>>

PortalWait ==
    /\ pc = "portalWait"
    /\ \E found \in BOOLEAN :
         /\ Emit(<<Ev(IF found THEN "wait_ok" ELSE "wait_timeout", "RewardsPortal")>>)
         /\ probeNavs' = probeNavs
         /\ ProbeReturn(found, probeInfo, probeNavs)
    /\ UNCHANGED <<storeVars, rewardsVars, config, httpRetries, probeInfo, fieldVars, flagVars,
                   retry_count, branches>>

(***************************************************************************)
(* Login.executeLogin: e-mail                                              *)
(***************************************************************************)
\* "assert field.get_attribute("value") == typed"
EchoOkLax(typed, read) == TRUE

EchoOk(typed, read) == read = typed

EmailWait ==
    /\ pc = "emailWait"
    /\ \E found \in BOOLEAN :
         IF found
         THEN Emit(<<Ev("wait_ok", "i0116")>>) /\ Goto("emailType")
         ELSE Emit(<<Ev("wait_timeout", "i0116")>>) /\ Raise("TimeoutException", "")
    /\ UNCHANGED <<storeVars, rewardsVars, config, probeVars, fieldVars, flagVars, retry_count, branches>>

EmailType ==
    /\ pc = "emailType"
    /\ \E read \in {username, Garbled} :
         /\ emailValue' = read
         /\ Emit(<<Ev("click", "i0116"), Ev("type", "i0116")>>)
         /\ IF EchoOk(username, read)
            THEN Goto("emailSubmit")
            ELSE Raise("AssertionError", "")
    /\ UNCHANGED <<storeVars, rewardsVars, config, probeVars, passwdValue, otp, otpValue, flagVars,
                   retry_count, branches>>

EmailSubmit ==
    /\ pc = "emailSubmit"
    /\ \E found \in BOOLEAN :
         IF found
         THEN /\ Emit(<<Ev("wait_ok", "emailSubmit"), Ev("click", "emailSubmit")>>)
              /\ Goto("passwordlessProbe")
         ELSE /\ Emit(<<Ev("wait_timeout", "emailSubmit")>>)
              /\ Raise("TimeoutException", "")
    /\ UNCHANGED <<storeVars, rewardsVars, config, probeVars, fieldVars, flagVars, retry_count, branches>>

(***************************************************************************)
(* Login.executeLogin: passwordless sign-in                                *)
(***************************************************************************)
\* the passwordless branch guarded by "assert self.args.visible"
PasswordlessProbeVisibleOnly ==
    /\ pc = "passwordlessProbe"
    /\ \E found \in BOOLEAN :
         /\ isPasswordless' = found
         /\ IF found
            THEN /\ Emit(<<Ev("wait_ok", "displaySign")>>)
                 /\ branches' = branches \cup {"passwordless"}
                 /\ IF visible
                    THEN Goto("codeWait")
                    ELSE Raise("AssertionError", "")
            ELSE /\ Emit(<<Ev("wait_timeout", "displaySign")>>)
                 /\ branches' = branches
                 /\ Goto("passwdWait")
    /\ UNCHANGED <<storeVars, rewardsVars, config, probeVars, fieldVars, isDeviceAuthEnabled, isTOTPEnabled,
                   isAskingToProtect, retry_count>>

PasswordlessProbe ==
    /\ pc = "passwordlessProbe"
    /\ \E found \in BOOLEAN :
         /\ isPasswordless' = found
         /\ IF found
            THEN /\ Emit(<<Ev("wait_ok", "displaySign")>>)
                 /\ branches' = branches \cup {"passwordless"}
                 /\ Goto("codeWait")
            ELSE /\ Emit(<<Ev("wait_timeout", "displaySign")>>)
                 /\ branches' = branches
                 /\ Goto("passwdWait")
    /\ UNCHANGED <<storeVars, rewardsVars, config, probeVars, fieldVars, isDeviceAuthEnabled, isTOTPEnabled,
                   isAskingToProtect, retry_count>>

CodeWait ==
    /\ pc = "codeWait"
    /\ \E found \in BOOLEAN :
         IF found
         THEN /\ Emit(<<Ev("wait_ok", "displaySign"), Ev("show", "displaySign")>>)
              /\ Goto("kmsiWait60")
         ELSE /\ Emit(<<Ev("wait_timeout", "displaySign")>>)
              /\ Raise("TimeoutException", "")
    /\ UNCHANGED <<storeVars, rewardsVars, config, probeVars, fieldVars, flagVars, retry_count, branches>>

\* the 60-second wait falling back to the password form when it times out
KmsiWait60FallsBack ==
    /\ pc = "kmsiWait60"
    /\ \E found \in BOOLEAN :
         IF found
         THEN Emit(<<Ev("wait_ok", "kmsiForm60")>>) /\ Goto("consentWait")
         ELSE Emit(<<Ev("wait_timeout", "kmsiForm60")>>) /\ Goto("passwdWait")
    /\ UNCHANGED <<storeVars, rewardsVars, config, probeVars, fieldVars, flagVars, retry_count, branches>>

KmsiWait60 ==
    /\ pc = "kmsiWait60"
    /\ \E found \in BOOLEAN :
         IF found
         THEN Emit(<<Ev("wait_ok", "kmsiForm60")>>) /\ Goto("consentWait")
         ELSE Emit(<<Ev("wait_timeout", "kmsiForm60")>>) /\ Raise("TimeoutException", "")
    /\ UNCHANGED <<storeVars, rewardsVars, config, probeVars, fieldVars, flagVars, retry_count, branches>>

(***************************************************************************)
(* Login.executeLogin: password and second factor                          *)
(***************************************************************************)
PasswdWait ==
    /\ pc = "passwdWait"
    /\ \E found \in BOOLEAN :
         IF found
         THEN Emit(<<Ev("wait_ok", "passwd")>>) /\ Goto("passwdType")
         ELSE Emit(<<Ev("wait_timeout", "passwd")>>) /\ Raise("TimeoutException", "")
    /\ UNCHANGED <<storeVars, rewardsVars, config, probeVars, fieldVars, flagVars, retry_count, branches>>

PasswdType ==
    /\ pc = "passwdType"
    /\ \E read \in {password, Garbled} :
         /\ passwdValue' = read
         /\ Emit(<<Ev("click", "passwd"), Ev("type", "passwd")>>)
         /\ IF EchoOk(password, read)
            THEN Goto("passwdSubmit")
            ELSE Raise("AssertionError", "")
    /\ UNCHANGED <<storeVars, rewardsVars, config, probeVars, emailValue, otp, otpValue, flagVars,
                   retry_count, branches>>

PasswdSubmit ==
    /\ pc = "passwdSubmit"
    /\ \E found \in BOOLEAN :
         IF found
         THEN /\ Emit(<<Ev("wait_ok", "passwdSubmit"), Ev("click", "passwdSubmit")>>)
              /\ Goto("deviceProbe")
         ELSE /\ Emit(<<Ev("wait_timeout", "passwdSubmit")>>)
              /\ Raise("TimeoutException", "")
    /\ UNCHANGED <<storeVars, rewardsVars, config, probeVars, fieldVars, flagVars, retry_count, branches>>

DeviceProbe ==
    /\ pc = "deviceProbe"
    /\ \E found \in BOOLEAN :
         /\ isDeviceAuthEnabled' = found
         /\ Emit(<<Ev(IF found THEN "wait_ok" ELSE "wait_timeout", "deviceAuth")>>)
    /\ Goto("totpProbe")
    /\ UNCHANGED <<storeVars, rewardsVars, config, probeVars, fieldVars, isPasswordless, isTOTPEnabled,
                   isAskingToProtect, retry_count, branches>>

\* the chain with the one-time-code test ahead of the device-auth test
TwoFactorBranchTotpFirst(deviceAuth, totpEnabled, secret) ==
    IF totpEnabled
    THEN IF secret # NoTotp THEN "totp" ELSE "manual"
    ELSE IF deviceAuth THEN "device" ELSE "no2fa"

\* the chain with "is not None" turned into "is None"
TwoFactorBranchInverted(deviceAuth, totpEnabled, secret) ==
    IF deviceAuth THEN "device"
    ELSE IF totpEnabled
         THEN IF secret = NoTotp THEN "totp" ELSE "manual"
         ELSE "no2fa"

\* the if / elif / (fall through) chain of l.88-134: the branch taken
TwoFactorBranch(deviceAuth, totpEnabled, secret) ==
    IF deviceAuth THEN "device"
    ELSE IF totpEnabled
         THEN IF secret # NoTotp THEN "totp" ELSE "manual"
         ELSE "no2fa"

\* "assert self.args.visible"
VisibleOkAlways(v) == TRUE

VisibleOk(v) == v

TotpProbe ==
    /\ pc = "totpProbe"
    /\ \E found \in BOOLEAN, window \in Windows :
         LET branch == TwoFactorBranch(isDeviceAuthEnabled, found, totp) IN
         /\ isTOTPEnabled' = found
         /\ branches' = branches \cup {branch}
         /\ CASE branch = "device" ->
                   /\ Emit(<<Ev(IF found THEN "wait_ok" ELSE "wait_timeout", "otc")>>)
                   /\ Raise("Exception", DeviceAuthMsg)
                   /\ otp' = otp
              [] branch = "totp" ->
                   /\ Emit(<<Ev("wait_ok", "otc")>>)
                   /\ otp' = TotpNow(StripSpaces(totp), window)
                   /\ Goto("otpWait")
              [] branch = "manual" ->
                   /\ otp' = otp
                   /\ IF VisibleOk(visible)
                      THEN /\ Emit(<<Ev("wait_ok", "otc"), Ev("input", "2fa")>>)
                           /\ Goto("input2FA")
                      ELSE /\ Emit(<<Ev("wait_ok", "otc")>>)
                           /\ Raise("AssertionError", Need2FAMsg)
              [] branch = "no2fa" ->
                   /\ Emit(<<Ev("wait_timeout", "otc")>>)
                   /\ otp' = otp
                   /\ Goto("consentWait")
    /\ UNCHANGED <<storeVars, rewardsVars, config, probeVars, emailValue, passwdValue, otpValue,
                   isPasswordless, isDeviceAuthEnabled, isAskingToProtect, retry_count>>

OtpWait ==
    /\ pc = "otpWait"
    /\ \E found \in BOOLEAN :
         IF found
         THEN Emit(<<Ev("wait_ok", "otcInput")>>) /\ Goto("otpType")
         ELSE Emit(<<Ev("wait_timeout", "otcInput")>>) /\ Raise("TimeoutException", "")
    /\ UNCHANGED <<storeVars, rewardsVars, config, probeVars, fieldVars, flagVars, retry_count, branches>>

OtpType ==
    /\ pc = "otpType"
    /\ \E read \in {otp, Garbled} :
         /\ otpValue' = read
         /\ Emit(<<Ev("type", "otcInput")>>)
         /\ IF EchoOk(otp, read)
            THEN Goto("otpSubmit")
            ELSE Raise("AssertionError", "")
    /\ UNCHANGED <<storeVars, rewardsVars, config, probeVars, emailValue, passwdValue, otp, flagVars,
                   retry_count, branches>>

OtpSubmit ==
    /\ pc = "otpSubmit"
    /\ \E found \in BOOLEAN :
         IF found
         THEN /\ Emit(<<Ev("wait_ok", "otpSubmit"), Ev("click", "otpSubmit")>>)
              /\ Goto("consentWait")
         ELSE /\ Emit(<<Ev("wait_timeout", "otpSubmit")>>)
              /\ Raise("TimeoutException", "")
    /\ UNCHANGED <<storeVars, rewardsVars, config, probeVars, fieldVars, flagVars, retry_count, branches>>

\* input() of l.134 returns: the operator pressed enter
Input2FA ==
    /\ pc = "input2FA"
    /\ Emit(<<Ev("ack", "2fa")>>)
    /\ Goto("consentWait")
    /\ UNCHANGED <<storeVars, rewardsVars, config, probeVars, fieldVars, flagVars, retry_count, branches>>

(***************************************************************************)
(* Login.executeLogin: stay signed in, account protection, dashboard       *)
(***************************************************************************)
\* the wait for the stay-signed-in form with its timeout suppressed
ConsentWaitProceeds ==
    /\ pc = "consentWait"
    /\ \E found \in BOOLEAN :
         /\ Emit(<<Ev(IF found THEN "wait_ok" ELSE "wait_timeout", "kmsiForm")>>)
         /\ Goto("acceptClick")
    /\ UNCHANGED <<storeVars, rewardsVars, config, probeVars, fieldVars, flagVars, retry_count, branches>>

ConsentWait ==
    /\ pc = "consentWait"
    /\ \E found \in BOOLEAN :
         IF found
         THEN Emit(<<Ev("wait_ok", "kmsiForm")>>) /\ Goto("acceptClick")
         ELSE Emit(<<Ev("wait_timeout", "kmsiForm")>>) /\ Raise("TimeoutException", "")
    /\ UNCHANGED <<storeVars, rewardsVars, config, probeVars, fieldVars, flagVars, retry_count, branches>>

\* the accept control clicked a second time
AcceptClickTwice ==
    /\ pc = "acceptClick"
    /\ \E found \in BOOLEAN :
         IF found
         THEN /\ Emit(<<Ev("wait_ok", "acceptButton"), Ev("click", "acceptButton"),
                        Ev("click", "acceptButton")>>)
              /\ Goto("protectProbe")
         ELSE /\ Emit(<<Ev("wait_timeout", "acceptButton")>>)
              /\ Raise("TimeoutException", "")
    /\ UNCHANGED <<storeVars, rewardsVars, config, probeVars, fieldVars, flagVars, retry_count, branches>>

AcceptClick ==
    /\ pc = "acceptClick"
    /\ \E found \in BOOLEAN :
         IF found
         THEN /\ Emit(<<Ev("wait_ok", "acceptButton"), Ev("click", "acceptButton")>>)
              /\ Goto("protectProbe")
         ELSE /\ Emit(<<Ev("wait_timeout", "acceptButton")>>)
              /\ Raise("TimeoutException", "")
    /\ UNCHANGED <<storeVars, rewardsVars, config, probeVars, fieldVars, flagVars, retry_count, branches>>

\* checkIfTextPresentAfterDelay("protect your account", 5) and l.146-153
ProtectProbe ==
    /\ pc = "protectProbe"
    /\ \E found \in BOOLEAN :
         /\ isAskingToProtect' = found
         /\ IF found
            THEN IF VisibleOk(visible)
                 THEN /\ Emit(<<Ev("text_found", "protect"), Ev("input", "protect")>>)
                      /\ Goto("inputProtect")
                 ELSE /\ Emit(<<Ev("text_found", "protect")>>)
                      /\ Raise("AssertionError", NeedProtectMsg)
            ELSE /\ Emit(<<Ev("text_absent", "protect")>>)
                 /\ Goto("dashWait")
    /\ UNCHANGED <<storeVars, rewardsVars, config, probeVars, fieldVars, isPasswordless, isDeviceAuthEnabled,
                   isTOTPEnabled, retry_count, branches>>

\* input() of l.153 returns
InputProtect ==
    /\ pc = "inputProtect"
    /\ Emit(<<Ev("ack", "protect")>>)
    /\ Goto("dashWait")
    /\ UNCHANGED <<storeVars, rewardsVars, config, probeVars, fieldVars, flagVars, retry_count, branches>>

\* "while retry_count < MAX_RETRY_DASHBOARD"
DashRetryLeftOffByOne(n) == n <= MAX_RETRY_DASHBOARD

DashRetryLeft(n) == n < MAX_RETRY_DASHBOARD

\* one iteration of the while loop of l.164-179; executeLogin returns on break
DashWait ==
    /\ pc = "dashWait"
    /\ DashRetryLeft(retry_count)
    /\ \E found \in BOOLEAN :
         IF found
         THEN /\ Emit(<<Ev("wait_ok", "dashboard")>>)
              /\ retry_count' = retry_count
              /\ Goto("getBingInfo")
              /\ probeCaller' = "final"
         ELSE /\ Emit(<<Ev("wait_timeout", "dashboard"), Ev("nav", REWARDS_URL),
                        Ev("sleep", "dashboard")>>)
              /\ retry_count' = retry_count + 1
              /\ probeCaller' = probeCaller
              /\ IF DashRetryLeft(retry_count + 1)
                 THEN Goto("dashWait")
                 ELSE Raise("TimeoutException", DashboardMsg)
    /\ UNCHANGED <<storeVars, rewardsVars, config, httpRetries, probeInfo, probeNavs, probes, fieldVars,
                   flagVars, branches>>

(***************************************************************************)
(* manage_running_status                                                   *)
(***************************************************************************)
MaxCalls == 4

PyBools == {"True", "False"}

Absent    == [exists |-> FALSE, bytes |-> <<>>]
Truncated == [exists |-> TRUE, bytes |-> <<>>]

\* struct.pack("?", value)
Pack(value) == IF value = "True" THEN 1 ELSE 0

\* struct.unpack("?", byte)[0]
Unpack(byte) == IF byte # 0 THEN "True" ELSE "False"

\* the file after "with open(STATUS_FILE, "wb") as file: file.write(...)" has closed it
Written(value) == [exists |-> TRUE, bytes |-> <<Pack(value)>>]

\* "get" on file f: what it returns, or the exception that leaves it
GetResult(f) ==
    IF ~f.exists THEN "False"
    ELSE IF Len(f.bytes) = 0 THEN "struct.error"
    ELSE Unpack(f.bytes[1])

\* a reset that leaves the file in place
ResetFileKeeps(f) == f

\* "reset": if STATUS_FILE.exists(): STATUS_FILE.unlink()
ResetFile(f) == IF f.exists THEN Absent ELSE f

Done(method, arg, ret) == calls' = Append(calls, [method |-> method, arg |-> arg, ret |-> ret])

StoreGet ==
    /\ spc = "ready"
    /\ Len(calls) < MaxCalls
    /\ Done("get", "None", GetResult(file))
    /\ UNCHANGED <<loginVars, rewardsVars, file, spc, pending, prevFile, lastRead>>

\* a "set" that opens the file before it looks at value
StoreSetOpenUnchecked ==
    /\ spc = "ready"
    /\ Len(calls) < MaxCalls
    /\ \E value \in PyBools \cup {"None"} :
         IF value = "None"
         THEN /\ file' = Truncated
              /\ Done("set", value, "ValueError")
              /\ UNCHANGED <<spc, pending, prevFile>>
         ELSE /\ file' = Truncated
              /\ prevFile' = file
              /\ pending' = value
              /\ spc' = "setWrite"
              /\ calls' = calls
    /\ UNCHANGED <<loginVars, rewardsVars, lastRead>>

\* "set" up to and including open(STATUS_FILE, "wb"), which creates or truncates
StoreSetOpen ==
    /\ spc = "ready"
    /\ Len(calls) < MaxCalls
    /\ \E value \in PyBools \cup {"None"} :
         IF value = "None"
         THEN /\ Done("set", value, "ValueError")
              /\ UNCHANGED <<file, spc, pending, prevFile>>
         ELSE /\ file' = Truncated
              /\ prevFile' = file
              /\ pending' = value
              /\ spc' = "setWrite"
              /\ calls' = calls
    /\ UNCHANGED <<loginVars, rewardsVars, lastRead>>

\* file.write(struct.pack("?", value)) and the close that flushes it
StoreSetWrite ==
    /\ spc = "setWrite"
    /\ file' = Written(pending)
    /\ spc' = "ready"
    /\ Done("set", pending, "None")
    /\ UNCHANGED <<loginVars, rewardsVars, pending, prevFile, lastRead>>

StoreReset ==
    /\ spc = "ready"
    /\ Len(calls) < MaxCalls
    /\ file' = ResetFile(file)
    /\ Done("reset", "None", "None")
    /\ UNCHANGED <<loginVars, rewardsVars, spc, pending, prevFile, lastRead>>

\* a method that is none of 'get', 'set', 'reset'
StoreBadMethod ==
    /\ spc = "ready"
    /\ Len(calls) < MaxCalls
    /\ Done("other", "None", "ValueError")
    /\ UNCHANGED <<loginVars, rewardsVars, file, spc, pending, prevFile, lastRead>>

\* manage_running_status("get") in another process, at any moment
ReaderGet ==
    /\ lastRead' = [ret   |-> GetResult(file),
                    inSet |-> spc = "setWrite",
                    old   |-> IF spc = "setWrite" THEN GetResult(prevFile)
                                                  ELSE GetResult(file),
                    new   |-> IF spc = "setWrite" THEN pending ELSE GetResult(file)]
    /\ UNCHANGED <<loginVars, rewardsVars, file, spc, pending, prevFile, calls>>

NoRead == [ret |-> "none", inSet |-> FALSE, old |-> "none", new |-> "none"]

\* the store before any call: no status file
StoreFresh ==
    /\ file = Absent
    /\ spc = "ready"
    /\ pending = "None"
    /\ prevFile = Absent
    /\ calls = <<>>
    /\ lastRead = NoRead

(***************************************************************************)
(* Utils.goToRewards, called from Utils.getDashboardData                   *)
(***************************************************************************)
max_retries == 5

WELCOME_URL == "https://rewards.bing.com/welcome"

\* the pages the browser can be on
Urls == {REWARDS_URL, SIGNIN_URL, WELCOME_URL}

GEv(call, kind, url) == [call |-> call, kind |-> kind, url |-> url]

GEmit(events) == glog' = glog \o events

\* goToRewards is entered: retry_count = 0
EnterGoToRewards(call) ==
    /\ gcall' = call
    /\ nav_retry_count' = 0
    /\ gpc' = "get"

\* "while retry_count < max_retries" after a timeout was counted
NavRetryLeftOneMore(count) == count <= max_retries

NavRetryLeft(count) == count < max_retries

\* the assert of l.128-130 has failed in goToRewards call `call`
LandedElsewhere(call, url) ==
    /\ gout' = [gout EXCEPT ![call] = "AssertionError"]
    /\ IF call = 1
       THEN /\ gpending' = [cls |-> "AssertionError", msg |-> url]
            /\ gpc' = "restore"
            /\ UNCHANGED <<gcall, gerr>>
       ELSE /\ gerr' = [cls |-> "AssertionError", msg |-> url]
            /\ gpc' = "failed"
            /\ UNCHANGED <<gcall, gpending>>

\* goToRewards call `call` has returned
Landed(call) ==
    /\ gout' = [gout EXCEPT ![call] = "returned"]
    /\ IF call = 1
       THEN /\ gpc' = "script"
            /\ UNCHANGED <<gcall, gpending, gerr>>
       ELSE /\ gpc' = IF gpending.cls = "none" THEN "done" ELSE "failed"
            /\ gerr' = gpending
            /\ UNCHANGED <<gcall, gpending>>

\* l.167-169: urlBefore = current_url, then goToRewards is called
DashboardDataCall ==
    /\ gpc = "idle"
    /\ \E url \in Urls :
         /\ current_url' = url
         /\ urlBefore' = url
    /\ EnterGoToRewards(1)
    /\ UNCHANGED <<loginVars, storeVars, glog, gout, gpending, gerr>>

\* l.127-133: webdriver.get(REWARDS_URL) and what follows it without blocking
RewardsGet ==
    /\ gpc = "get"
    /\ \E timedOut \in BOOLEAN, url \in Urls :
         /\ current_url' = url
         /\ IF timedOut
            THEN /\ GEmit(<<GEv(gcall, "nav", REWARDS_URL), GEv(gcall, "timeout", REWARDS_URL)>>)
                 /\ nav_retry_count' = nav_retry_count + 1
                 /\ gpc' = "sleep"
                 /\ UNCHANGED <<gcall, gout, gpending, gerr>>
            ELSE /\ GEmit(<<GEv(gcall, "nav", REWARDS_URL), GEv(gcall, "url", url)>>)
                 /\ nav_retry_count' = nav_retry_count
                 /\ IF url = REWARDS_URL THEN Landed(gcall) ELSE LandedElsewhere(gcall, url)
    /\ UNCHANGED <<loginVars, storeVars, urlBefore>>

\* l.137: time.sleep(retry_delay), then the loop test of l.125 and the else of l.138-140
RewardsSleep ==
    /\ gpc = "sleep"
    /\ GEmit(<<GEv(gcall, "sleep", REWARDS_URL)>>)
    /\ IF NavRetryLeft(nav_retry_count)
       THEN /\ gpc' = "get"
            /\ UNCHANGED <<gout, gpending, gerr>>
       ELSE /\ gout' = [gout EXCEPT ![gcall] = "TimeoutException"]
            /\ IF gcall = 1
               THEN /\ gpending' = [cls |-> "TimeoutException", msg |-> DashboardMsg]
                    /\ gpc' = "restore"
                    /\ gerr' = gerr
               ELSE /\ gerr' = [cls |-> "TimeoutException", msg |-> DashboardMsg]
                    /\ gpc' = "failed"
                    /\ gpending' = gpending
    /\ UNCHANGED <<loginVars, storeVars, gcall, current_url, urlBefore, nav_retry_count>>

\* l.170: execute_script("return dashboard") gives the value or raises
DashboardScript ==
    /\ gpc = "script"
    /\ \E ok \in BOOLEAN :
         gpending' = IF ok THEN NoErr ELSE [cls |-> "JavascriptException", msg |-> ""]
    /\ gpc' = "restore"
    /\ UNCHANGED <<loginVars, storeVars, gcall, current_url, urlBefore, nav_retry_count,
                   glog, gout, gerr>>

\* l.171-175: the finally block goes back to urlBefore, or to the rewards home if
\* that navigation times out
DashboardRestore ==
    /\ gpc = "restore"
    /\ \E timedOut \in BOOLEAN, url \in Urls :
         /\ current_url' = url
         /\ IF timedOut
            THEN /\ EnterGoToRewards(2)
                 /\ gerr' = gerr
            ELSE /\ gpc' = IF gpending.cls = "none" THEN "done" ELSE "failed"
                 /\ gerr' = gpending
                 /\ UNCHANGED <<gcall, nav_retry_count>>
    /\ UNCHANGED <<loginVars, storeVars, urlBefore, glog, gout, gpending>>

NoCall == "none"

\* before getDashboardData is called
RewardsFresh ==
    /\ gpc = "idle"
    /\ gcall = 0
    /\ current_url = SIGNIN_URL
    /\ urlBefore = SIGNIN_URL
    /\ nav_retry_count = 0
    /\ glog = <<>>
    /\ gout = <<NoCall, NoCall>>
    /\ gpending = NoErr
    /\ gerr = NoErr

Init ==
    /\ pc = "idle"
    /\ err = NoErr
    /\ log = <<>>
    /\ visible \in BOOLEAN
    /\ username \in Usernames
    /\ password \in Passwords
    /\ totp \in Secrets \cup {NoTotp}
    /\ probeCaller = "none"
    /\ httpRetries = 0
    /\ probeInfo = FALSE
    /\ probeNavs = 0
    /\ probes = <<>>
    /\ emailValue = Empty
    /\ passwdValue = Empty
    /\ otp = Empty
    /\ otpValue = Empty
    /\ isPasswordless = FALSE
    /\ isDeviceAuthEnabled = FALSE
    /\ isTOTPEnabled = FALSE
    /\ isAskingToProtect = FALSE
    /\ retry_count = 0
    /\ branches = {}
    /\ StoreFresh
    /\ RewardsFresh

Next ==
    \/ LoginCall
    \/ GetBingInfo
    \/ SigninGet
    \/ PortalWait
    \/ EmailWait
    \/ EmailType
    \/ EmailSubmit
    \/ PasswordlessProbe
    \/ CodeWait
    \/ KmsiWait60
    \/ PasswdWait
    \/ PasswdType
    \/ PasswdSubmit
    \/ DeviceProbe
    \/ TotpProbe
    \/ OtpWait
    \/ OtpType
    \/ OtpSubmit
    \/ Input2FA
    \/ ConsentWait
    \/ AcceptClick
    \/ ProtectProbe
    \/ InputProtect
    \/ DashWait

Spec == Init /\ [][Next]_vars

\* a step of the thread itself: every blocking call but input() ends by itself, on
\* success or on its timeout; input() ends when the operator presses enter
ProgramStep == Next /\ pc \notin {"input2FA", "inputProtect"}

FairSpec == Spec /\ WF_vars(ProgramStep)

\* the run-status store alone: no login() call is in progress
StoreInit ==
    /\ Init
    /\ ~visible
    /\ username = "a@x"
    /\ password = "pw1"
    /\ totp = NoTotp

StoreNext ==
    \/ StoreGet
    \/ StoreSetOpen
    \/ StoreSetWrite
    \/ StoreReset
    \/ StoreBadMethod
    \/ ReaderGet

StoreSpec == StoreInit /\ [][StoreNext]_vars

\* one getDashboardData call alone
RewardsNext ==
    \/ DashboardDataCall
    \/ RewardsGet
    \/ RewardsSleep
    \/ DashboardScript
    \/ DashboardRestore

RewardsSpec == StoreInit /\ [][RewardsNext]_vars

(***************************************************************************)
(* Vocabulary of the properties                                            *)
(***************************************************************************)
Terminal == pc \in {"returned", "raised"}

Has(kind, target) == Count(kind, target) > 0

\* some event on target, whatever its kind
Touched(target) == \E i \in DOMAIN log : log[i][2] = target

\* every occurrence of `later` has an occurrence of `earlier` before it
Precedes(earlier, later) ==
    \A j \in DOMAIN log : log[j] = later => \E i \in 1..(j - 1) : log[i] = earlier

\* every event on target `later` has an occurrence of event `earlier` before it
PrecedesTarget(earlier, target) ==
    \A j \in DOMAIN log : log[j][2] = target => \E i \in 1..(j - 1) : log[i] = earlier

Mutations == {i \in DOMAIN log : log[i][1] \in {"nav", "click", "type"}}

\* what the browser or the operator is asked to do, as opposed to what is observed
Inputs == {"nav", "click", "type", "input", "ack", "show"}

\* both second-factor probes of l.76-86 have run
TwoFactorProbed == Touched("otc")

\* the branch the markers and account.totp select
MarkerBranch ==
    IF isPasswordless THEN "passwordless"
    ELSE IF isDeviceAuthEnabled THEN "device"
    ELSE IF ~isTOTPEnabled THEN "no2fa"
    ELSE IF totp = NoTotp THEN "manual" ELSE "totp"

\* an exception left isLoggedIn itself (not the assert of login() on its result)
EscapedProbe == pc = "raised" /\ probeCaller # "none"

ProbesWhere(info, result) ==
    {i \in DOMAIN probes : probes[i].info = info /\ probes[i].result = result}

(***************************************************************************)
(* C1                                                                      *)
(***************************************************************************)
\* C1 (as stated): every attempt that got past the e-mail submit click has, when
\* it ends, entered exactly one of the five branches.
C1_ExactlyOneAfterEmail ==
    (Terminal /\ Has("click", "emailSubmit")) => Cardinality(branches) = 1

\* C1 (amended): no attempt enters more than one branch; an attempt that detected the
\* passwordless marker, or submitted the password and ran both second-factor probes,
\* has entered exactly one branch, the one the markers and account.totp select; an
\* attempt that has not got that far has entered none.
C1_BranchExclusive ==
    /\ Cardinality(branches) <= 1
    /\ ((isPasswordless \/ TwoFactorProbed) => branches = {MarkerBranch})
    /\ (~(isPasswordless \/ TwoFactorProbed) => branches = {})

C1_Witness ==
    /\ pc = "returned"
    /\ branches = {"totp"}
    /\ Has("click", "otpSubmit")

(***************************************************************************)
(* C2                                                                      *)
(***************************************************************************)
\* the field was typed into and read back something else: the attempt raised right
\* after the typing, and the submit control was never clicked
EchoAborts(field, submit, typed, read) ==
    (read # Empty /\ read # typed) =>
        (/\ pc = "raised"
         /\ err = [cls |-> "AssertionError", msg |-> ""]
         /\ log[Len(log)] = Ev("type", field)
         /\ ~Has("click", submit))

\* C2: for the e-mail, the password and the one-time code, a read-back that differs
\* from what was typed raises at once and the field's submit control is never
\* clicked; a submit click only happens once the read-back equalled what was typed.
C2_EchoBeforeSubmit ==
    /\ EchoAborts("i0116", "emailSubmit", username, emailValue)
    /\ EchoAborts("passwd", "passwdSubmit", password, passwdValue)
    /\ EchoAborts("otcInput", "otpSubmit", otp, otpValue)
    /\ (Has("click", "emailSubmit") => emailValue = username)
    /\ (Has("click", "passwdSubmit") => passwdValue = password)
    /\ (Has("click", "otpSubmit") => (otpValue = otp /\ otp # Empty))

C2_Witness ==
    /\ pc = "raised"
    /\ otpValue = Garbled
    /\ Has("click", "passwdSubmit")

FirstProbeTrue == Len(probes) >= 1 /\ probes[1].result

\* C5 (as stated): when the first probe reported authenticated, login() has performed
\* no navigation, no click and no typing.
C5_NoMutationWhenAuthenticated == FirstProbeTrue => Mutations = {}

\* C5 (amended): when the first probe reported authenticated, login() runs no step of
\* executeLogin: it clicks nothing and types nothing, and its only navigations are
\* those of the probes themselves, to the sign-in URL, one for each probe call whose
\* account-info response did not report a rewards user; with both responses reporting
\* a rewards user nothing is done to the browser at all.
C5_OnlyProbeNavigations ==
    FirstProbeTrue =>
        /\ \A i \in Mutations : log[i] = Ev("nav", SIGNIN_URL)
        /\ Count("nav", SIGNIN_URL) =
              Cardinality({i \in DOMAIN probes : ~probes[i].info})
                 + (IF pc = "portalWait" THEN 1 ELSE 0)
        /\ Count("nav", SIGNIN_URL) <= 2
        /\ pc \in {"getBingInfo", "signinGet", "portalWait", "returned", "raised"}
        /\ ((\A i \in DOMAIN probes : probes[i].info) /\ pc \notin {"signinGet", "portalWait"})
              => log = <<>>

C5_Witness ==
    /\ pc = "returned"
    /\ FirstProbeTrue
    /\ Count("nav", SIGNIN_URL) = 2

(***************************************************************************)
(* C6                                                                      *)
(***************************************************************************)
\* one-time-code marker present, device-confirmation marker absent, no secret
ManualCase == ~isPasswordless /\ ~isDeviceAuthEnabled /\ isTOTPEnabled /\ totp = NoTotp

\* C6: in the manual second-factor case a headless run raises the configuration
\* error straight after the probe, without asking the operator and without touching
\* the stay-signed-in form; a visible run asks the operator, stays blocked until the
\* acknowledgement, and only touches the stay-signed-in form after it.
C6_Manual2FA ==
    ManualCase =>
        /\ (~visible =>
               (/\ pc = "raised"
                /\ err = [cls |-> "AssertionError", msg |-> Need2FAMsg]
                /\ log[Len(log)] = Ev("wait_ok", "otc")
                /\ ~Has("input", "2fa")
                /\ ~Touched("kmsiForm")))
        /\ (visible =>
               (/\ Has("input", "2fa")
                /\ (pc = "input2FA" <=> ~Has("ack", "2fa"))
                /\ PrecedesTarget(Ev("ack", "2fa"), "kmsiForm")))

C6_Witness ==
    /\ ManualCase
    /\ visible
    /\ Has("ack", "2fa")
    /\ pc = "returned"

ProtectProbed == Touched("protect")

\* C8: the account-protection probe runs after the consent click on every path that
\* clicked it, and before any dashboard check; with the text present a headless run
\* raises without asking the operator and without a dashboard check, and a visible
\* run asks the operator and checks the dashboard only after the acknowledgement;
\* with the text absent the operator is not asked and the flow goes on to the
\* dashboard check.
C8_ProtectionInterstitial ==
    /\ PrecedesTarget(Ev("click", "acceptButton"), "protect")
    /\ ((Has("click", "acceptButton") /\ pc # "protectProbe") => ProtectProbed)
    /\ (Touched("dashboard") => ProtectProbed)
    /\ ((isAskingToProtect /\ ~visible) =>
           (/\ pc = "raised"
            /\ err = [cls |-> "AssertionError", msg |-> NeedProtectMsg]
            /\ ~Has("input", "protect")
            /\ ~Touched("dashboard")))
    /\ ((isAskingToProtect /\ visible) =>
           (/\ Has("input", "protect")
            /\ (pc = "inputProtect" <=> ~Has("ack", "protect"))
            /\ PrecedesTarget(Ev("ack", "protect"), "dashboard")))
    /\ ((ProtectProbed /\ ~isAskingToProtect) =>
           (/\ ~Has("input", "protect")
            /\ ~Has("ack", "protect")
            /\ (pc = "raised" => Touched("dashboard"))))

C8_Witness ==
    /\ isAskingToProtect
    /\ visible
    /\ branches = {"passwordless"}
    /\ Has("ack", "protect")
    /\ pc = "returned"

C10_ProbeResult ==
    /\ \A i \in DOMAIN probes :
          /\ (probes[i].info => (probes[i].result /\ probes[i].navs = 0))
          /\ (~probes[i].info => probes[i].navs = 1)
    /\ Count("nav", SIGNIN_URL) =
          Cardinality({i \in DOMAIN probes : ~probes[i].info})
             + (IF pc = "portalWait" THEN 1 ELSE 0)
    /\ Count("wait_ok", "RewardsPortal") = Cardinality(ProbesWhere(FALSE, TRUE))
    /\ Count("wait_timeout", "RewardsPortal") = Cardinality(ProbesWhere(FALSE, FALSE))
    /\ \A j \in DOMAIN log :
          log[j] = Ev("nav", SIGNIN_URL) =>
              IF j = Len(log) THEN pc = "portalWait" ELSE log[j + 1][2] = "RewardsPortal"

C10_Witness ==
    /\ pc = "returned"
    /\ Len(probes) = 2
    /\ ~probes[1].result
    /\ ~probes[2].info
    /\ probes[2].result

(***************************************************************************)
(* C11                                                                     *)
(***************************************************************************)
\* the waits of executeLogin that must succeed, other than the dashboard wait
RequiredWaits == {"i0116", "emailSubmit", "passwd", "passwdSubmit", "otcInput",
                  "otpSubmit", "kmsiForm60", "kmsiForm", "acceptButton"}

\* event j is a timed-out required wait (for the code element of the passwordless
\* branch: the wait of l.57, which follows the successful probe of l.51)
RequiredTimeout(j) ==
    \/ (log[j][1] = "wait_timeout" /\ log[j][2] \in RequiredWaits)
    \/ (j > 1 /\ log[j] = Ev("wait_timeout", "displaySign")
              /\ log[j - 1] = Ev("wait_ok", "displaySign"))

\* C11: a timed-out required wait of executeLogin is the last thing the attempt
\* does: login() has raised the wait's TimeoutException and nothing follows in the
\* log; no required wait is ever made twice, the dashboard wait being the only wait
\* that is repeated.
C11_TimeoutIsFatal ==
    /\ \A j \in DOMAIN log :
          RequiredTimeout(j) =>
              (/\ j = Len(log)
               /\ pc = "raised"
               /\ err = [cls |-> "TimeoutException", msg |-> ""])
    /\ \A t \in RequiredWaits : Count("wait_ok", t) + Count("wait_timeout", t) <= 1
    /\ Count("wait_ok", "dashboard") <= 1
    /\ Count("wait_timeout", "dashboard") <= MAX_RETRY_DASHBOARD

C11_Witness ==
    /\ pc = "raised"
    /\ Has("click", "emailSubmit")
    /\ Has("wait_timeout", "kmsiForm60")
    /\ log[Len(log)] = Ev("wait_timeout", "kmsiForm60")

(***************************************************************************)
(* C13                                                                     *)
(***************************************************************************)
\* executeLogin has returned: the dashboard marker was seen
ExecuteLoginDone == Has("wait_ok", "dashboard")

\* C13: the e-mail submit, the password submit, the one-time-code submit and the
\* consent accept are each clicked at most once; when executeLogin has returned, the
\* e-mail submit and the consent accept were clicked exactly once, the password
\* submit exactly once unless the branch is passwordless (then never), and the
\* one-time-code submit exactly once on the TOTP branch (never on the others).
C13_IrreversibleOnce ==
    /\ \A t \in {"emailSubmit", "passwdSubmit", "otpSubmit", "acceptButton"} :
          Count("click", t) <= 1
    /\ ExecuteLoginDone =>
          (/\ Count("click", "emailSubmit") = 1
           /\ Count("click", "acceptButton") = 1
           /\ Count("click", "passwdSubmit") = (IF isPasswordless THEN 0 ELSE 1)
           /\ Count("click", "otpSubmit") = (IF branches = {"totp"} THEN 1 ELSE 0))

C13_Witness ==
    /\ ExecuteLoginDone
    /\ branches = {"totp"}
    /\ Count("click", "otpSubmit") = 1
    /\ retry_count = 2

(***************************************************************************)
(* C14                                                                     *)
(***************************************************************************)
\* every click or typing on a control comes right after the successful wait for it
\* (for a field that is clicked and then typed into: wait, click, type)
ActsAfterItsWait ==
    \A j \in DOMAIN log :
        /\ (log[j][1] = "click" =>
               (j > 1 /\ (\/ log[j - 1] = Ev("wait_ok", log[j][2])
                          \/ log[j - 1] = log[j])))
        /\ (log[j][1] = "type" =>
               (j > 1 /\ log[j - 1] \in {Ev("wait_ok", log[j][2]),
                                         Ev("click", log[j][2])}))

\* C14: the password is typed only after the e-mail submit click, the one-time code
\* only after the password submit click, the consent accept is clicked only after
\* the stay-signed-in form was seen by the wait of l.136, the dashboard is checked
\* only after the consent accept click, and every click or typing directly follows
\* the successful wait for its control.
C14_Sequential ==
    /\ PrecedesTarget(Ev("click", "emailSubmit"), "passwd")
    /\ PrecedesTarget(Ev("click", "passwdSubmit"), "otcInput")
    /\ Precedes(Ev("wait_ok", "kmsiForm"), Ev("click", "acceptButton"))
    /\ PrecedesTarget(Ev("click", "acceptButton"), "dashboard")
    /\ Precedes(Ev("wait_ok", "i0116"), Ev("click", "emailSubmit"))
    /\ ActsAfterItsWait

C14_Witness ==
    /\ Has("type", "otcInput")
    /\ Has("wait_timeout", "dashboard")
    /\ Has("wait_ok", "dashboard")

(***************************************************************************)
(* C16                                                                     *)
(***************************************************************************)
\* the credentials have been handed over: password submitted, or passwordless
\* confirmation seen
CredentialsSubmitted == Has("click", "passwdSubmit") \/ Has("wait_ok", "kmsiForm60")

DashboardError == [cls |-> "TimeoutException", msg |-> DashboardMsg]

\* C16: login() raises the dashboard error exactly when the dashboard budget is
\* spent, which is after the credentials were submitted; every error raised before
\* the credentials were submitted differs from it (in its message, or in its class).
C16_DashboardErrorDistinct ==
    /\ (pc = "raised" /\ err = DashboardError) =>
          (/\ Count("wait_timeout", "dashboard") = MAX_RETRY_DASHBOARD
           /\ CredentialsSubmitted)
    /\ (pc = "raised" /\ Count("wait_timeout", "dashboard") = MAX_RETRY_DASHBOARD)
          => err = DashboardError
    /\ (pc = "raised" /\ ~CredentialsSubmitted) => err # DashboardError

C16_Witness ==
    /\ pc = "raised"
    /\ err = DashboardError
    /\ CredentialsSubmitted
    /\ ~isPasswordless

(***************************************************************************)
(* C19                                                                     *)
(***************************************************************************)
FinalProbeDone == Len(probes) >= 1 /\ probes[Len(probes)].caller = "final"

\* C19: login() has returned only if its final isLoggedIn call returned true; when
\* the final call returned false, login() has raised the AssertionError of l.37, also
\* after an executeLogin that completed.
C19_ReturnMeansAuthenticated ==
    /\ pc = "returned" => (FinalProbeDone /\ probes[Len(probes)].result)
    /\ (FinalProbeDone /\ ~probes[Len(probes)].result) =>
          (pc = "raised" /\ err = [cls |-> "AssertionError", msg |-> ""])

C19_Witness ==
    /\ ExecuteLoginDone
    /\ FinalProbeDone
    /\ ~probes[Len(probes)].result
    /\ pc = "raised"

(***************************************************************************)
(* C20                                                                     *)
(***************************************************************************)
\* C20: when the dashboard error is raised, the last thing done in the loop was a
\* wait for the dashboard marker: every navigation to the rewards home (and the sleep
\* after it) is followed by another dashboard wait.
C20_NavigationIsChecked ==
    \A j \in DOMAIN log :
        (Terminal /\ log[j] = Ev("nav", REWARDS_URL)) =>
            \E k \in (j + 1)..Len(log) : log[k][2] = "dashboard" /\ log[k][1] \in {"wait_ok", "wait_timeout"}

(***************************************************************************)
(* C12                                                                     *)
(***************************************************************************)
\* executeLogin was entered: the first isLoggedIn call returned false
InAttempt == Len(probes) >= 1 /\ ~probes[1].result

\* nothing observed so far departs from the scenario: secret configured, attempt
\* started, every required wait met, no passwordless marker, no device-auth marker,
\* one-time-code input present, no protection text, every echo equal to what was
\* typed, dashboard budget not spent
ScenarioSoFar ==
    /\ totp # NoTotp
    /\ ~FirstProbeTrue
    /\ (pc = "raised" => InAttempt)
    /\ \A j \in DOMAIN log : ~RequiredTimeout(j)
    /\ ~Has("wait_ok", "displaySign")
    /\ ~Has("wait_ok", "deviceAuth")
    /\ ~Has("wait_timeout", "otc")
    /\ ~Has("text_found", "protect")
    /\ emailValue \in {Empty, username}
    /\ passwdValue \in {Empty, password}
    /\ otpValue \in {Empty, otp}
    /\ Count("wait_timeout", "dashboard") < MAX_RETRY_DASHBOARD

\* the first position of an event in the log (0 when it is absent)
FirstAt(kind, target) ==
    IF Has(kind, target)
    THEN CHOOSE i \in DOMAIN log :
            /\ log[i] = Ev(kind, target)
            /\ \A k \in 1..(i - 1) : log[k] # Ev(kind, target)
    ELSE 0

\* executeLogin returned through the TOTP branch, its steps in the scenario's order
ScenarioGoal ==
    /\ ExecuteLoginDone
    /\ branches = {"totp"}
    /\ otp \in {TotpNow(StripSpaces(totp), w) : w \in Windows}
    /\ otpValue = otp
    /\ 0 < FirstAt("click", "passwdSubmit")
    /\ FirstAt("click", "passwdSubmit") < FirstAt("type", "otcInput")
    /\ FirstAt("type", "otcInput") < FirstAt("click", "otpSubmit")
    /\ FirstAt("click", "otpSubmit") < FirstAt("click", "acceptButton")
    /\ FirstAt("click", "acceptButton") < FirstAt("wait_ok", "dashboard")
    /\ ~Has("input", "2fa")
    /\ ~Has("input", "protect")

\* C12: with a secret configured, every run of the thread either departs from the
\* scenario (a required element missing, another marker or the protection text
\* showing, an echo differing, the dashboard budget spent) or reaches the end of
\* executeLogin through the TOTP branch, having submitted the password, then typed
\* and submitted the computed code, then accepted the consent form, then seen the
\* dashboard, without asking the operator; headless runs included.
C12_TotpScenario == <>(~ScenarioSoFar \/ ScenarioGoal)

C12_Witness ==
    /\ ScenarioSoFar
    /\ ScenarioGoal
    /\ ~visible
    /\ Has("wait_timeout", "dashboard")

(***************************************************************************)
(* C15                                                                     *)
(***************************************************************************)
AuthStates == {"Start", "EmailEntered", "PasswordPath", "PasswordlessPath",
               "AwaitingDeviceConfirm", "AwaitingTOTP", "AwaitingManual2FA",
               "ConsentPending", "DashboardPending", "LoggedIn", "Failed"}

\* the AuthAttemptState of the executeLogin call, read off its position; Start while
\* executeLogin has not been entered, LoggedIn once it has returned
AuthState ==
    IF ~InAttempt THEN "Start"
    ELSE IF ExecuteLoginDone THEN "LoggedIn"
    ELSE CASE pc \in {"emailWait", "emailType", "emailSubmit"} -> "Start"
           [] pc = "passwordlessProbe" -> "EmailEntered"
           [] pc \in {"codeWait", "kmsiWait60"} -> "PasswordlessPath"
           [] pc \in {"passwdWait", "passwdType", "passwdSubmit", "deviceProbe",
                      "totpProbe"} -> "PasswordPath"
           [] pc \in {"otpWait", "otpType", "otpSubmit"} -> "AwaitingTOTP"
           [] pc = "input2FA" -> "AwaitingManual2FA"
           [] pc \in {"consentWait", "acceptClick", "protectProbe", "inputProtect"}
                 -> "ConsentPending"
           [] pc = "dashWait" -> "DashboardPending"
           [] pc = "raised" -> "Failed"

Rank(state) ==
    CASE state = "Start" -> 0
      [] state = "EmailEntered" -> 1
      [] state \in {"PasswordPath", "PasswordlessPath"} -> 2
      [] state \in {"AwaitingDeviceConfirm", "AwaitingTOTP", "AwaitingManual2FA"} -> 3
      [] state = "ConsentPending" -> 4
      [] state = "DashboardPending" -> 5
      [] state \in {"LoggedIn", "Failed"} -> 6

\* C15: the attempt is in exactly one AuthAttemptState; every change of state goes
\* strictly forward in the order Start, EmailEntered, {PasswordPath,
\* PasswordlessPath}, {AwaitingTOTP, AwaitingManual2FA, AwaitingDeviceConfirm},
\* ConsentPending, DashboardPending, {LoggedIn, Failed}, so no state is entered twice;
\* LoggedIn and Failed are never left; and the only step of executeLogin that ends
\* where it began is a timed-out dashboard wait, which spends one of the
\* MAX_RETRY_DASHBOARD retries.
C15_OneDirectional ==
    [][/\ AuthState \in AuthStates
       /\ AuthState' \in AuthStates
       /\ (AuthState' # AuthState => Rank(AuthState') > Rank(AuthState))
       /\ (AuthState \in {"LoggedIn", "Failed"} => AuthState' = AuthState)
       /\ ((InAttempt /\ ~ExecuteLoginDone /\ pc' = pc) =>
              (/\ pc = "dashWait"
               /\ retry_count' = retry_count + 1
               /\ retry_count' < MAX_RETRY_DASHBOARD))]_vars

C15_Witness ==
    /\ AuthState = "DashboardPending"
    /\ retry_count = 3
    /\ branches = {"manual"}

(***************************************************************************)
(* C17                                                                     *)
(***************************************************************************)
\* the calls before call i that changed the store: "set" with a value, and "reset"
MutatingBefore(i) ==
    {k \in 1..(i - 1) : \/ calls[k].method = "reset"
                        \/ (calls[k].method = "set" /\ calls[k].ret = "None")}

LastMutatingBefore(i) == CHOOSE k \in MutatingBefore(i) : \A m \in MutatingBefore(i) : m <= k

\* what the claim says call i, a "get", returns
ExpectedGet(i) ==
    IF MutatingBefore(i) = {} THEN "False"
    ELSE IF calls[LastMutatingBefore(i)].method = "reset" THEN "False"
    ELSE calls[LastMutatingBefore(i)].arg

\* C17: in a sequential series of calls every "get" returns the value of the most
\* recent "set" when no "reset" came after it, and False when nothing was set yet
\* or the most recent change was a "reset"; it never raises.
C17_GetReturnsLastSet ==
    \A i \in DOMAIN calls : calls[i].method = "get" => calls[i].ret = ExpectedGet(i)

C17_Witness ==
    /\ Len(calls) = 4
    /\ calls[1] = [method |-> "set", arg |-> "True", ret |-> "None"]
    /\ calls[2] = [method |-> "get", arg |-> "None", ret |-> "True"]
    /\ calls[3].method = "reset"
    /\ calls[4] = [method |-> "get", arg |-> "None", ret |-> "False"]

(***************************************************************************)
(* C18                                                                     *)
(***************************************************************************)
\* C18: a "get" made by another process while a "set" is in progress returns the
\* value from before the set or the value being set, and does not raise.
C18_ConcurrentGetAtomic ==
    lastRead.inSet => lastRead.ret \in {lastRead.old, lastRead.new}

(***************************************************************************)
(* C21                                                                     *)
(***************************************************************************)
\* the thread is inside one of the two input() calls (l.134, l.153)
AtOperatorInput == pc \in {"input2FA", "inputProtect"}

\* C21: a headless run never reaches an input() wait and never asks the operator
\* anything on the console, whatever the markers, the account settings and the
\* dashboard do; and since every other blocking call returns or times out, every
\* headless attempt ends with login() returning or raising.
C21_HeadlessNeverBlocks ==
    /\ [](~visible => (/\ ~AtOperatorInput
                       /\ ~Has("input", "2fa")
                       /\ ~Has("input", "protect")))
    /\ <>(visible \/ Terminal)

C21_Witness ==
    /\ ~visible
    /\ isAskingToProtect
    /\ branches = {"no2fa"}
    /\ pc = "raised"
    /\ err.msg = NeedProtectMsg

(***************************************************************************)
(* C22                                                                     *)
(***************************************************************************)
\* the password field and its submit, the two second-factor markers, the one-time
\* code field and its submit
PasswordPathTargets == {"passwd", "passwdSubmit", "deviceAuth", "otc", "otcInput", "otpSubmit"}

\* C22: once the passwordless marker was detected the attempt never waits for, types
\* into or clicks anything of the password path: no password, no one-time code, no
\* probe for the device-confirmation or one-time-code marker, no console prompt for a
\* second factor; and the step that follows the successful 60-second wait is the wait
\* of the consent step, which is reached in no other way.
C22_PasswordlessSkipsPasswordPath ==
    isPasswordless =>
        /\ \A i \in DOMAIN log : log[i][2] \notin PasswordPathTargets
        /\ passwdValue = Empty
        /\ otp = Empty
        /\ ~Has("input", "2fa")
        /\ \A j \in DOMAIN log :
             (log[j] = Ev("wait_ok", "kmsiForm60")) =>
                 IF j = Len(log) THEN pc = "consentWait" ELSE log[j + 1][2] = "kmsiForm"
        /\ \A j \in DOMAIN log :
             (log[j][2] = "kmsiForm") => (j > 1 /\ log[j - 1] = Ev("wait_ok", "kmsiForm60"))

C22_Witness ==
    /\ isPasswordless
    /\ Has("wait_ok", "kmsiForm")
    /\ Has("click", "acceptButton")
    /\ pc = "dashWait"

(***************************************************************************)
(* C23                                                                     *)
(***************************************************************************)
GoCalls == {1, 2}

\* positions in glog of the events of goToRewards call c
EventsOf(c) == {i \in DOMAIN glog : glog[i].call = c}

KindCount(c, kind) == Cardinality({i \in EventsOf(c) : glog[i].kind = kind})

\* event i is the last thing its goToRewards call did
LastOfItsCall(i) == \A j \in EventsOf(glog[i].call) : j <= i

\* C23: in every goToRewards call: at most max_retries navigations, all to the
\* rewards URL; a navigation other than the call's first comes right after the sleep
\* that followed a timed-out navigation, and every timed-out navigation is followed
\* by that sleep; the call raises the dashboard error exactly when max_retries
\* navigations have timed out; a navigation that lands on the rewards URL is the last
\* thing the call does and the call returns; a navigation that completes on another
\* URL is the last thing the call does and the call fails with AssertionError.
C23_GoToRewardsBounded ==
    \A c \in GoCalls :
        /\ KindCount(c, "nav") <= max_retries
        /\ \A i \in EventsOf(c) :
             /\ (glog[i].kind = "nav") =>
                    (/\ glog[i].url = REWARDS_URL
                     /\ ((\E j \in EventsOf(c) : j < i) =>
                            (/\ glog[i - 1] = GEv(c, "sleep", REWARDS_URL)
                             /\ glog[i - 2] = GEv(c, "timeout", REWARDS_URL))))
             /\ (glog[i].kind = "timeout") =>
                    (IF i = Len(glog) THEN gpc = "sleep" /\ gcall = c
                                      ELSE glog[i + 1] = GEv(c, "sleep", REWARDS_URL))
             /\ (glog[i].kind = "url") =>
                    (/\ LastOfItsCall(i)
                     /\ gout[c] = IF glog[i].url = REWARDS_URL THEN "returned"
                                                               ELSE "AssertionError")
        /\ (gout[c] = "TimeoutException" <=>
               (KindCount(c, "timeout") = max_retries /\ KindCount(c, "sleep") = max_retries))
        /\ (gout[c] = "TimeoutException" => KindCount(c, "nav") = max_retries)
        /\ (gout[c] \in {"returned", "AssertionError"} =>
               \E i \in EventsOf(c) : glog[i].kind = "url" /\ LastOfItsCall(i))
        /\ ((gout[c] = "TimeoutException" /\ c = 2) =>
               (gpc = "failed" /\ gerr = [cls |-> "TimeoutException", msg |-> DashboardMsg]))

C23_Witness ==
    /\ gout = <<"TimeoutException", "AssertionError">>
    /\ KindCount(1, "nav") = 5
    /\ KindCount(2, "nav") = 3
    /\ gpc = "failed"

(***************************************************************************)
(* C24                                                                     *)
(***************************************************************************)
\* the call that this step completes, when it completes one
Completed == calls'[Len(calls')]

\* C24: a step that completes "set" without a value raises ValueError with the
\* file never opened: the file, or its absence, is as before and no write is
\* pending; a step that completes a call with an unknown method raises ValueError
\* and leaves the file as before; a step that completes "reset" when there is no
\* file returns None and there is still no file.
C24_InvalidCallsLeaveStore ==
    [][(Len(calls') = Len(calls) + 1) =>
          /\ ((Completed.method = "set" /\ Completed.arg = "None") =>
                 (/\ Completed.ret = "ValueError"
                  /\ file' = file
                  /\ spc = "ready" /\ spc' = "ready"))
          /\ ((Completed.method = "other") =>
                 (Completed.ret = "ValueError" /\ file' = file))
          /\ ((Completed.method = "reset" /\ ~file.exists) =>
                 (Completed.ret = "None" /\ file' = Absent))]_vars

C24_Witness ==
    /\ Len(calls) = 4
    /\ calls[1] = [method |-> "reset", arg |-> "None", ret |-> "None"]
    /\ calls[2] = [method |-> "set", arg |-> "None", ret |-> "ValueError"]
    /\ calls[3] = [method |-> "other", arg |-> "None", ret |-> "ValueError"]
    /\ calls[4] = [method |-> "get", arg |-> "None", ret |-> "False"]
    /\ file = Absent
====
